---- MODULE Spec2Model ----
(***************************************************************************)
(* Render orchestration of invideo-studio:                                 *)
(*   backend/src/services/render-service.ts  (RenderService)               *)
(*   backend/src/server.ts                   (render routes, Joi schema)   *)
(*                                                                         *)
(* The state is the BullMQ queue 'video-render' (per job: state, attempts  *)
(* made, progress, failedReason, returnvalue), the render_jobs table, the  *)
(* file system below TEMP_DIR, and the position of every running           *)
(* processRenderJob call.  An await that touches only the job's own       *)
(* progress field is taken together with the await next to it.             *)
(*                                                                         *)
(* Specifications: Spec / FairSpec (one client, the default pool),         *)
(* PoolSpec and PrioritySpec (several jobs competing for the worker        *)
(* slots), CrashSpec / FairCrashSpec (Spec plus process restarts), and     *)
(* ScenesSpec (requests of two scenes), FormatSpec (every output format),  *)
(* PlannerSpec, ReplanSpec and TextSpec (the ffmpeg command renderScene    *)
(* builds for one scene).                                                  *)
(***************************************************************************)
EXTENDS Integers, Sequences, FiniteSets, TLC

\* ------------------------------------------------------------------ bounds
MaxJobs == 1
MaxScenes == 1

\* Scenes given to the command builder: at most MaxLayers layers, start
\* times, durations and the scene duration up to MaxTime, z-index up to
\* MaxZIndex.
MaxLayers == 2
MaxTime == 2
MaxZIndex == 1

\* renderScene is called at most MaxBuilds times on one scene object; text
\* contents have at most MaxTextLen characters.
MaxBuilds == 2
MaxTextLen == 2

\* ------------------------------------------------------ program constants
attempts == 3
removeOnComplete == 10
removeOnFail == 5
concurrency == 2

\* BullMQ's default for the Worker option maxStalledCount, which
\* initializeWorker does not set.
maxStalledCount == 1

\* Specifications about the worker pool enqueue as many jobs as the pool has
\* slots by default; they compete for pools of that size and smaller.
PoolJobs == concurrency

JobIds == 1..(IF MaxJobs > PoolJobs THEN MaxJobs ELSE PoolJobs)

\* settings.quality
Qualities == {"draft", "standard", "high", "ultra"}

\* A scene is abstracted to what decides the control flow of renderScene:
\* whether each of its video/image/audio layers carries a source ("ok"), one
\* of them has no source property at all ("missing"), or one has source ''
\* ("empty").
SourceKinds == {"ok", "missing", "empty"}

Requests == UNION {[1..n -> SourceKinds] : n \in 1..MaxScenes}

NoData == <<>>

NoMeta == [outputUrl |-> "", error |-> ""]

NoRow == [status |-> "absent", metadata |-> NoMeta]

Undefined == "undefined"

\* Progress values are rationals <<numerator, denominator>>: 5 + (i/n)*80 is
\* not an integer in general.
Rat(n) == <<n, 1>>

RatLeq(p, q) == p[1] * q[2] <= q[1] * p[2]

\* Files of a working directory: scene_<i>.mp4, scenes.txt, final_output.<format>
sceneOutput(i) == <<"scene", i>>

listFile == <<"scenes.txt", 0>>

outputFile == <<"final_output", 0>>

VARIABLES
    nextId,        \* BullMQ id counter: the id queue.add gives the next job
    jobData,       \* job.data.scenes of each job (NoData: no such job yet)
    quality,       \* job.data.settings.quality
    qstate,        \* job.getState(): none, waiting, active, delayed, completed, failed, removed
    waitOrder,     \* the wait list, oldest first
    attemptsMade,  \* job.attemptsMade
    progress,      \* job.progress
    failedReason,  \* job.failedReason
    returnvalue,   \* job.returnvalue.outputUrl
    completedSet,  \* the completed set, oldest first (trimmed to removeOnComplete)
    failedSet,     \* the failed set, oldest first (trimmed to removeOnFail)
    stalledCounter,\* how often the job was found active without a live worker
    insertPending, \* queueRender is between queue.add and the insert into render_jobs
    db,            \* table render_jobs: id -> row
    pc,            \* where the processRenderJob call of the job stands
    sceneIdx,      \* loop variable i of processRenderJob
    sceneFiles,    \* local sceneFiles of processRenderJob
    publicUrl,     \* local publicUrl of processRenderJob
    error,         \* the error caught by processRenderJob's catch
    dirExists,     \* TEMP_DIR/render_<id> exists
    files,         \* the files in TEMP_DIR/render_<id>
    fileList,      \* the content of TEMP_DIR/render_<id>/scenes.txt, line by line
    renderConcurrency, \* parseInt(RENDER_CONCURRENCY || '2'), read at construction
    outputFormat,  \* job.data.outputFormat of the request that becomes job j
    scene,         \* renderScene's argument scene (its layers are sorted in place)
    built,         \* the commands built by the calls so far, with the layers each call was given
    inputs,        \* the layer inputs of the ffmpeg command, after the canvas input
    filterComplex  \* the filter graph of the ffmpeg command, one entry per layer

vars == <<nextId, jobData, quality, qstate, waitOrder, attemptsMade, progress,
          failedReason, returnvalue, completedSet, failedSet, stalledCounter,
          insertPending, db, pc, sceneIdx, sceneFiles, publicUrl, error, dirExists, files,
          fileList,
          renderConcurrency, outputFormat, scene, built, inputs, filterComplex>>

queueVars == <<nextId, jobData, quality, qstate, waitOrder, attemptsMade, failedReason,
               returnvalue, completedSet, failedSet, stalledCounter>>

\* The command that renderScene builds.
commandVars == <<scene, built, inputs, filterComplex>>

\* What no step of the queue or of processRenderJob changes.
fixedVars == <<renderConcurrency, outputFormat, commandVars>>

fsVars == <<dirExists, files, fileList>>

localVars == <<sceneIdx, sceneFiles, publicUrl, error>>

\* renderJobSchema: outputFormat is one of Formats, 'mp4' when left out.
Formats == {"mp4", "mov", "avi", "webm"}
default == "mp4"

\* No layer list: renderScene has not been given a scene.
NoScene == [duration |-> 0, layers |-> <<>>]

\* The queue, the table and the disk after construction.
QueueInit ==
    /\ nextId = 1
    /\ jobData = [j \in JobIds |-> NoData]
    /\ quality = [j \in JobIds |-> ""]
    /\ stalledCounter = [j \in JobIds |-> 0]
    /\ qstate = [j \in JobIds |-> "none"]
    /\ waitOrder = <<>>
    /\ attemptsMade = [j \in JobIds |-> 0]
    /\ progress = [j \in JobIds |-> Rat(0)]
    /\ failedReason = [j \in JobIds |-> ""]
    /\ returnvalue = [j \in JobIds |-> ""]
    /\ completedSet = <<>>
    /\ failedSet = <<>>
    /\ insertPending = [j \in JobIds |-> FALSE]
    /\ db = [j \in JobIds |-> NoRow]
    /\ pc = [j \in JobIds |-> "idle"]
    /\ sceneIdx = [j \in JobIds |-> 0]
    /\ sceneFiles = [j \in JobIds |-> <<>>]
    /\ publicUrl = [j \in JobIds |-> ""]
    /\ error = [j \in JobIds |-> ""]
    /\ dirExists = [j \in JobIds |-> FALSE]
    /\ files = [j \in JobIds |-> {}]
    /\ fileList = [j \in JobIds |-> <<>>]

\* No command is being built.
CommandInit ==
    /\ scene = NoScene
    /\ built = <<>>
    /\ inputs = <<>>
    /\ filterComplex = <<>>

\* RENDER_CONCURRENCY is not set: the pool has the default size.
Init ==
    /\ QueueInit
    /\ renderConcurrency = concurrency
    /\ outputFormat = [j \in JobIds |-> default]
    /\ CommandInit

\* ------------------------------------------------------------ render_jobs
\* supabase update(...).eq('id', jobId): changes the row if there is one and
\* nothing otherwise; a metadata of undefined is not part of the request body
\* and leaves the column as it is.
updateJobStatus(table, j, status, metadata) ==
    IF table[j].status = "absent"
    THEN table
    ELSE [table EXCEPT ![j] =
            [status |-> status,
             metadata |-> IF metadata = Undefined THEN @.metadata
                          ELSE [outputUrl |-> metadata[1], error |-> metadata[2]]]]

\* --------------------------------------------------------- Status/Control
\* Joi: source is Joi.string().optional(): a missing source passes, the
\* empty string does not (Joi strings reject '' unless allowed); at least
\* one scene is required.
renderJobSchema(req) ==
    /\ Len(req) >= 1
    /\ \A i \in 1..Len(req) : req[i] # "empty"

getPriority(q) ==
    CASE q = "draft" -> 1
      [] q = "standard" -> 2
      [] q = "high" -> 3
      [] q = "ultra" -> 4
      [] OTHER -> 2

\* POST /queue up to the first await of queueRender: the schema, then
\* renderQueue.add with the priority of settings.quality.  The job is in the
\* wait list from here on.  At most `limit` jobs are enqueued.
queueRender(req, settingsQuality, limit) ==
    /\ nextId <= limit
    /\ IF renderJobSchema(req)
       THEN /\ jobData' = [jobData EXCEPT ![nextId] = req]
            /\ quality' = [quality EXCEPT ![nextId] = settingsQuality]
            /\ qstate' = [qstate EXCEPT ![nextId] = "waiting"]
            /\ waitOrder' = Append(waitOrder, nextId)
            /\ insertPending' = [insertPending EXCEPT ![nextId] = TRUE]
            /\ nextId' = nextId + 1
       ELSE UNCHANGED <<jobData, quality, qstate, waitOrder, insertPending, nextId>>
    /\ UNCHANGED <<fixedVars, stalledCounter, attemptsMade, progress, failedReason, returnvalue, completedSet,
                   failedSet, db, pc, localVars, fsVars>>

\* The rest of queueRender: the insert of the row with status 'queued', after
\* which the job id is returned to the caller.
insertRow(j) ==
    /\ insertPending[j]
    /\ insertPending' = [insertPending EXCEPT ![j] = FALSE]
    /\ db' = [db EXCEPT ![j] = [status |-> "queued", metadata |-> NoMeta]]
    /\ UNCHANGED <<fixedVars, queueVars, progress, pc, localVars, fsVars>>

\* The job id has been returned by queueRender.
Returned(j) == jobData[j] # NoData /\ ~insertPending[j]

\* renderQueue.getJob(jobId)
getJob(j) == qstate[j] \notin {"none", "removed"}

\* getRenderStatus: a read of the queue; what it returns in the current state.
getRenderStatus(j) ==
    IF ~getJob(j)
    THEN [error |-> "Render job not found"]
    ELSE [status |-> qstate[j], progress |-> progress[j],
          failedReason |-> failedReason[j], returnValue |-> returnvalue[j]]

\* job.remove(): an active job is locked by the worker that runs it and
\* cannot be removed; the lock of a job whose worker has died expires.
removable(j) == ~(qstate[j] = "active" /\ pc[j] # "idle")

\* A faulty variant of RemoveFrom: the job stays in the list.
removeKeepsJob(seq, j) == seq

\* The list without job j.
RemoveFrom(seq, j) == SelectSeq(seq, LAMBDA x : x # j)

\* What cancelRender returns (or throws) in the current state.
cancelRenderResult(j) ==
    IF ~getJob(j) THEN "Render job not found"
    ELSE IF ~removable(j) THEN "could not be removed because it is locked by another worker"
    ELSE "true"

\* cancelRender: getJob, job.remove(), then the update of the row.  Callers
\* cancel ids they were given, or ids that were never given out.
cancelRender(j) ==
    /\ Returned(j) \/ jobData[j] = NoData
    /\ IF cancelRenderResult(j) = "true"
       THEN /\ qstate' = [qstate EXCEPT ![j] = "removed"]
            /\ waitOrder' = RemoveFrom(waitOrder, j)
            /\ completedSet' = RemoveFrom(completedSet, j)
            /\ failedSet' = RemoveFrom(failedSet, j)
            /\ attemptsMade' = [attemptsMade EXCEPT ![j] = 0]
            /\ stalledCounter' = [stalledCounter EXCEPT ![j] = 0]
            /\ progress' = [progress EXCEPT ![j] = Rat(0)]
            /\ failedReason' = [failedReason EXCEPT ![j] = ""]
            /\ returnvalue' = [returnvalue EXCEPT ![j] = ""]
            /\ db' = [db EXCEPT ![j] = IF @.status = "absent" THEN @
                                       ELSE [@ EXCEPT !.status = "cancelled"]]
       ELSE UNCHANGED <<qstate, waitOrder, completedSet, failedSet, attemptsMade, stalledCounter,
                        progress, failedReason, returnvalue, db>>
    /\ UNCHANGED <<fixedVars, nextId, jobData, quality, insertPending, pc, localVars, fsVars>>

\* ------------------------------------------------------------ BullMQ worker
Active == {j \in JobIds : qstate[j] = "active"}

\* The job BullMQ hands out next: of the waiting jobs the one with the
\* lowest priority number, and of those the one that has waited longest.
nextJob(waiting, prio) ==
    LET first == CHOOSE k \in 1..Len(waiting) :
                     \A m \in 1..Len(waiting) :
                         \/ prio[waiting[k]] < prio[waiting[m]]
                         \/ prio[waiting[k]] = prio[waiting[m]] /\ k <= m
    IN  waiting[first]

\* A faulty variant of claim: the job is handed out and stays in the list.
claimKeepsJob(waiting, j) == waiting

\* The wait list after job j has been handed to a worker: handing out and
\* taking off the list are one atomic step of the queue.
claim(waiting, j) == RemoveFrom(waiting, j)

\* A faulty variant of slotFree: the worker fetches without counting.
slotAlwaysFree(running) == TRUE

\* The worker fetches a job only while fewer than RENDER_CONCURRENCY
\* processors are running.
slotFree(running) == running < renderConcurrency

\* The worker takes the next waiting job when a slot is free, and calls
\* processRenderJob on it.
moveToActive(j) ==
    /\ slotFree(Cardinality(Active))
    /\ waitOrder # <<>>
    /\ j = nextJob(waitOrder, [k \in JobIds |-> getPriority(quality[k])])
    /\ waitOrder' = claim(waitOrder, j)
    /\ qstate' = [qstate EXCEPT ![j] = "active"]
    /\ pc' = [pc EXCEPT ![j] = "status"]
    /\ sceneIdx' = [sceneIdx EXCEPT ![j] = 0]
    /\ sceneFiles' = [sceneFiles EXCEPT ![j] = <<>>]
    /\ publicUrl' = [publicUrl EXCEPT ![j] = ""]
    /\ error' = [error EXCEPT ![j] = ""]
    /\ UNCHANGED <<fixedVars, nextId, jobData, quality, stalledCounter, attemptsMade, progress, failedReason, returnvalue,
                   completedSet, failedSet, insertPending, db, fsVars>>

\* Timing: queueRender sends its insert as soon as queue.add has returned; the
\* insert is taken to land no later than the end of the job's first attempt
\* (it may land after any of the attempt's own writes to the row).
InsertLanded(j) == ~insertPending[j]

\* The processRenderJob call is over: its locals are gone.
Return(j) ==
    /\ pc' = [pc EXCEPT ![j] = "idle"]
    /\ sceneIdx' = [sceneIdx EXCEPT ![j] = 0]
    /\ sceneFiles' = [sceneFiles EXCEPT ![j] = <<>>]
    /\ publicUrl' = [publicUrl EXCEPT ![j] = ""]
    /\ error' = [error EXCEPT ![j] = ""]

\* Keep the newest `keep` entries of a finished set; the others are removed
\* from the queue.
Trimmed(seq, keep) ==
    IF Len(seq) > keep THEN SubSeq(seq, Len(seq) - keep + 1, Len(seq)) ELSE seq

Dropped(seq, keep) ==
    IF Len(seq) > keep THEN {seq[k] : k \in 1..(Len(seq) - keep)} ELSE {}

\* The processor returned: the job moves to completed (removeOnComplete).
moveToCompleted(j) ==
    /\ pc[j] = "return"
    /\ InsertLanded(j)
    /\ LET all == Append(completedSet, j) IN
         /\ completedSet' = Trimmed(all, removeOnComplete)
         /\ qstate' = [k \in JobIds |->
                         IF k \in Dropped(all, removeOnComplete) THEN "removed"
                         ELSE IF k = j THEN "completed" ELSE qstate[k]]
    /\ returnvalue' = [returnvalue EXCEPT ![j] = publicUrl[j]]
    /\ Return(j)
    /\ UNCHANGED <<fixedVars, nextId, jobData, quality, stalledCounter, waitOrder, attemptsMade, progress, failedReason,
                   failedSet, insertPending, db, fsVars>>

\* A faulty variant of retries: one retry too many.
retriesOffByOne(n) == n <= attempts

\* Whether a job that has failed for the n-th time is run again.
retries(n) == n < attempts

\* The processor threw: the failure is counted; the job is delayed for a
\* retry (exponential backoff) while attempts are left, and moves to failed
\* (removeOnFail) otherwise.
moveToFailed(j) ==
    /\ pc[j] = "throw"
    /\ InsertLanded(j)
    /\ attemptsMade' = [attemptsMade EXCEPT ![j] = @ + 1]
    /\ failedReason' = [failedReason EXCEPT ![j] = error[j]]
    /\ IF retries(attemptsMade[j] + 1)
       THEN /\ qstate' = [qstate EXCEPT ![j] = "delayed"]
            /\ UNCHANGED failedSet
       ELSE LET all == Append(failedSet, j) IN
            /\ failedSet' = Trimmed(all, removeOnFail)
            /\ qstate' = [k \in JobIds |->
                            IF k \in Dropped(all, removeOnFail) THEN "removed"
                            ELSE IF k = j THEN "failed" ELSE qstate[k]]
    /\ Return(j)
    /\ UNCHANGED <<fixedVars, nextId, jobData, quality, stalledCounter, waitOrder, progress, returnvalue, completedSet,
                   insertPending, db, fsVars>>

\* The backoff delay of a delayed job is over: back to the wait list.
promote(j) ==
    /\ qstate[j] = "delayed"
    /\ qstate' = [qstate EXCEPT ![j] = "waiting"]
    /\ waitOrder' = Append(waitOrder, j)
    /\ UNCHANGED <<fixedVars, nextId, jobData, quality, stalledCounter, attemptsMade, progress, failedReason, returnvalue,
                   completedSet, failedSet, insertPending, db, pc, localVars, fsVars>>

\* -------------------------------------------------------- processRenderJob
nScenes(j) == Len(jobData[j])

\* A rejected await inside the try block: the catch clause runs next.
Throw(j, msg) ==
    /\ error' = [error EXCEPT ![j] = msg]
    /\ pc' = [pc EXCEPT ![j] = "catch"]

\* await this.updateJobStatus(job.id, 'processing')
setProcessing(j) ==
    /\ pc[j] = "status"
    /\ db' = updateJobStatus(db, j, "processing", Undefined)
    /\ pc' = [pc EXCEPT ![j] = "mkdir"]
    /\ UNCHANGED <<fixedVars, queueVars, progress, insertPending, localVars, fsVars>>

\* await job.updateProgress(5); await fs.mkdir(workDir, { recursive: true }):
\* workDir is render_<job.id>, the same path in every attempt; an existing
\* directory is kept as it is.
mkdir(j) ==
    /\ pc[j] = "mkdir"
    /\ progress' = [progress EXCEPT ![j] = Rat(5)]
    /\ dirExists' = [dirExists EXCEPT ![j] = TRUE]
    /\ sceneIdx' = [sceneIdx EXCEPT ![j] = 0]
    /\ sceneFiles' = [sceneFiles EXCEPT ![j] = <<>>]
    /\ pc' = [pc EXCEPT ![j] = "scene"]
    /\ UNCHANGED <<fixedVars, queueVars, insertPending, db, publicUrl, error, files, fileList>>

\* renderScene up to command.run(): building the command throws a TypeError
\* on a layer without source (command.input(undefined)), which rejects the
\* promise; otherwise ffmpeg is started.
renderScene(j) ==
    /\ pc[j] = "scene"
    /\ IF jobData[j][sceneIdx[j] + 1] = "missing"
       THEN Throw(j, "TypeError: source is undefined")
       ELSE /\ pc' = [pc EXCEPT ![j] = "ffmpeg"]
            /\ UNCHANGED error
    /\ UNCHANGED <<fixedVars, queueVars, progress, insertPending, db, sceneIdx, sceneFiles, publicUrl, fsVars>>

\* 5 + (i / scenes.length) * 80
sceneProgress(i, n) == <<5 * n + i * 80, n>>

\* A faulty variant of loopTest: the loop is left one scene early.
loopEndsEarly(i, n) == i + 1 < n

\* The test of the scene loop: i < scenes.length
loopTest(i, n) == i < n

\* ffmpeg 'end' of a scene: the scene file exists, the promise resolves;
\* sceneFiles.push; await job.updateProgress(progress); i++ and the loop test.
sceneEnd(j) ==
    /\ pc[j] = "ffmpeg"
    /\ files' = [files EXCEPT ![j] = @ \cup {sceneOutput(sceneIdx[j])}]
    /\ progress' = [progress EXCEPT ![j] = sceneProgress(sceneIdx[j], nScenes(j))]
    /\ sceneFiles' = [sceneFiles EXCEPT ![j] = Append(@, sceneOutput(sceneIdx[j]))]
    /\ sceneIdx' = [sceneIdx EXCEPT ![j] = @ + 1]
    /\ pc' = [pc EXCEPT ![j] = IF loopTest(sceneIdx[j] + 1, nScenes(j)) THEN "scene" ELSE "concat"]
    /\ UNCHANGED <<fixedVars, queueVars, insertPending, db, publicUrl, error, dirExists, fileList>>

\* ffmpeg 'error' of a scene (unreachable source, tool crash): reject(err).
sceneError(j) ==
    /\ pc[j] = "ffmpeg"
    /\ Throw(j, "ffmpeg exited with code 1")
    /\ UNCHANGED <<fixedVars, queueVars, progress, insertPending, db, sceneIdx, sceneFiles, publicUrl, fsVars>>

\* ffmpeg emits neither 'end' nor 'error': no handler ever runs, the promise
\* stays pending (renderScene and concatenateScenes set no timeout).
toolHangs(j) ==
    /\ pc[j] \in {"ffmpeg", "concatRun"}
    /\ pc' = [pc EXCEPT ![j] = "hung"]
    /\ UNCHANGED <<fixedVars, queueVars, progress, insertPending, db, localVars, fsVars>>

\* await job.updateProgress(85); concatenateScenes up to run(): scenes.txt is
\* written, ffmpeg is started.
concatenateScenes(j) ==
    /\ pc[j] = "concat"
    /\ progress' = [progress EXCEPT ![j] = Rat(85)]
    /\ IF dirExists[j]
       THEN /\ files' = [files EXCEPT ![j] = @ \cup {listFile}]
            /\ fileList' = [fileList EXCEPT ![j] = sceneFiles[j]]
            /\ pc' = [pc EXCEPT ![j] = "concatRun"]
            /\ UNCHANGED error
       ELSE /\ Throw(j, "ENOENT")
            /\ UNCHANGED <<files, fileList>>
    /\ UNCHANGED <<fixedVars, queueVars, insertPending, db, sceneIdx, sceneFiles, publicUrl, dirExists>>

\* ffmpeg 'end' of the concatenation: final_output.<format> exists.
concatEnd(j) ==
    /\ pc[j] = "concatRun"
    /\ files' = [files EXCEPT ![j] = @ \cup {outputFile}]
    /\ pc' = [pc EXCEPT ![j] = "upload"]
    /\ UNCHANGED <<fixedVars, queueVars, progress, insertPending, db, localVars, dirExists, fileList>>

\* ffmpeg 'error' of the concatenation
concatError(j) ==
    /\ pc[j] = "concatRun"
    /\ Throw(j, "ffmpeg exited with code 1")
    /\ UNCHANGED <<fixedVars, queueVars, progress, insertPending, db, sceneIdx, sceneFiles, publicUrl, fsVars>>

\* supabase.uploadFile: the public URL of the stored object; '' stands for
\* the call throwing.
uploadFile(ok) == IF ok THEN "publicUrl" ELSE ""

\* await job.updateProgress(95); uploadFinalVideo: fs.readFile(filePath),
\* then the upload.
uploadFinalVideo(j, ok) ==
    /\ pc[j] = "upload"
    /\ progress' = [progress EXCEPT ![j] = Rat(95)]
    /\ IF outputFile \notin files[j]
       THEN Throw(j, "ENOENT") /\ UNCHANGED publicUrl
       ELSE IF uploadFile(ok) = ""
       THEN Throw(j, "upload failed") /\ UNCHANGED publicUrl
       ELSE /\ publicUrl' = [publicUrl EXCEPT ![j] = uploadFile(ok)]
            /\ pc' = [pc EXCEPT ![j] = "cleanup"]
            /\ UNCHANGED error
    /\ UNCHANGED <<fixedVars, queueVars, insertPending, db, sceneIdx, sceneFiles, fsVars>>

\* What fs.rm(workDir, { recursive: true, force: true }) leaves of the
\* directory: nothing when it succeeds; when it throws, cleanup only logs.
rmExists(exists, ok) == IF ok THEN FALSE ELSE exists

rmFiles(fs, ok) == IF ok THEN {} ELSE fs

rmFileList(list, ok) == IF ok THEN <<>> ELSE list

\* await this.cleanup(workDir); await job.updateProgress(100)
cleanup(j, ok) ==
    /\ pc[j] = "cleanup"
    /\ dirExists' = [dirExists EXCEPT ![j] = rmExists(@, ok)]
    /\ files' = [files EXCEPT ![j] = rmFiles(@, ok)]
    /\ fileList' = [fileList EXCEPT ![j] = rmFileList(@, ok)]
    /\ progress' = [progress EXCEPT ![j] = Rat(100)]
    /\ pc' = [pc EXCEPT ![j] = "stat"]
    /\ UNCHANGED <<fixedVars, queueVars, insertPending, db, localVars>>

\* (await fs.stat(finalOutput)).size, evaluated for the metadata argument
\* before updateJobStatus is called: ENOENT when the file is gone.
statFinalOutput(j) ==
    /\ pc[j] = "stat"
    /\ IF outputFile \in files[j]
       THEN pc' = [pc EXCEPT ![j] = "completed"] /\ UNCHANGED error
       ELSE Throw(j, "ENOENT")
    /\ UNCHANGED <<fixedVars, queueVars, progress, insertPending, db, sceneIdx, sceneFiles, publicUrl, fsVars>>

\* await this.updateJobStatus(job.id, 'completed', { outputUrl, fileSize })
setCompleted(j) ==
    /\ pc[j] = "completed"
    /\ db' = updateJobStatus(db, j, "completed", <<publicUrl[j], "">>)
    /\ pc' = [pc EXCEPT ![j] = "return"]
    /\ UNCHANGED <<fixedVars, queueVars, progress, insertPending, localVars, fsVars>>

\* catch: await this.updateJobStatus(job.id, 'failed', { error }); throw error
setFailed(j) ==
    /\ pc[j] = "catch"
    /\ db' = updateJobStatus(db, j, "failed", <<"", error[j]>>)
    /\ pc' = [pc EXCEPT ![j] = "throw"]
    /\ UNCHANGED <<fixedVars, queueVars, progress, insertPending, localVars, fsVars>>

\* ------------------------------------------------------------------- Spec
processRenderJob(j) ==
    \/ setProcessing(j)
    \/ mkdir(j)
    \/ renderScene(j)
    \/ sceneEnd(j)
    \/ sceneError(j)
    \/ toolHangs(j)
    \/ concatenateScenes(j)
    \/ concatEnd(j)
    \/ concatError(j)
    \/ \E ok \in BOOLEAN : uploadFinalVideo(j, ok)
    \/ \E ok \in BOOLEAN : cleanup(j, ok)
    \/ statFinalOutput(j)
    \/ setCompleted(j)
    \/ setFailed(j)

Next ==
    \/ \E req \in Requests : queueRender(req, "standard", MaxJobs)
    \/ \E j \in JobIds :
         \/ insertRow(j)
         \/ cancelRender(j)
         \/ moveToActive(j)
         \/ processRenderJob(j)
         \/ moveToCompleted(j)
         \/ moveToFailed(j)
         \/ promote(j)

Spec == Init /\ [][Next]_vars

\* What the system does for job j without a client: the pending insert, the
\* worker and the queue.  The event loop and the BullMQ worker run every step
\* that stays possible.
SystemStep(j) ==
    \/ insertRow(j)
    \/ moveToActive(j)
    \/ processRenderJob(j)
    \/ moveToCompleted(j)
    \/ moveToFailed(j)
    \/ promote(j)

FairSpec == Spec /\ \A j \in JobIds : WF_vars(SystemStep(j))

\* ----------------------------------------------------------------- claims
TerminalStatuses == {"completed", "failed", "cancelled"}

\* C1: once the recorded status of a job is completed, failed or cancelled,
\* no step changes it.
C1_TerminalIsFinal ==
    [][\A j \in JobIds :
          db[j].status \in TerminalStatuses => db'[j].status = db[j].status]_vars

\* C2: an attempt (of a job whose enqueue has returned) whose scene renders,
\* concatenation and upload have all succeeded goes on to completed with a
\* non-empty output URL; it does not enter the failure path.
C2_SuccessfulAttemptCompletes ==
    [][\A j \in JobIds :
          (Returned(j) /\ pc[j] \in {"cleanup", "stat", "completed"})
             => /\ pc'[j] # "catch"
                /\ pc'[j] = "return" => /\ db'[j].status = "completed"
                                         /\ db'[j].metadata.outputUrl # ""]_vars

\* C3: cancel on a job recorded as completed or failed returns
\* JobAlreadyTerminal and leaves record and queue entry as they were.
C3_CancelOfTerminalIsNoOp ==
    [][\A j \in JobIds :
          (db[j].status \in {"completed", "failed"} /\ cancelRender(j))
             => /\ cancelRenderResult(j) = "JobAlreadyTerminal"
                /\ UNCHANGED <<db, qstate, completedSet, failedSet>>]_vars

\* C4: a cancel of a job recorded as processing is carried out (it is not
\* refused), and once a job is recorded as cancelled its worker has stopped
\* and no invocation of it runs.
C4_CancelOfProcessingInterrupts ==
    \A j \in JobIds :
        /\ (Returned(j) /\ db[j].status = "processing") => cancelRenderResult(j) = "true"
        /\ db[j].status = "cancelled" => pc[j] = "idle"

\* C5: the record mirrors every transition before the job's next step: a
\* claimed job has a record, the record says processing while the attempt
\* renders, and it says failed or completed when the attempt returns.
C5_TransitionsPersisted ==
    \A j \in JobIds :
        /\ qstate[j] = "active" => db[j].status # "absent"
        /\ pc[j] \in {"mkdir", "scene", "ffmpeg", "concat", "concatRun", "upload",
                       "cleanup", "stat"} => db[j].status = "processing"
        /\ pc[j] = "throw" => db[j].status = "failed"
        /\ pc[j] = "return" => db[j].status = "completed"

\* C6: getStatus succeeds for every job id that enqueue has returned.
C6_StatusOfEnqueuedJobFound ==
    \A j \in JobIds : Returned(j) => getRenderStatus(j) # [error |-> "Render job not found"]

\* The queue has finished with the job: completed, failed, or removed by a
\* cancel.
QueueTerminal(j) == qstate[j] \in {"completed", "failed", "removed"}

\* C7: under fair scheduling every enqueued job eventually reaches a terminal
\* state, also when a tool invocation never signals end or error.
C7_NoJobLost ==
    \A j \in JobIds : (jobData[j] # NoData) ~> QueueTerminal(j)

\* C8: a job is attempted at most `attempts` times: no attempt runs once
\* `attempts` failures are counted, a job waits for a retry only with fewer,
\* and a job in the failed state has failed `attempts` times and carries
\* its failure reason.
C8_AttemptsBounded ==
    \A j \in JobIds :
        /\ attemptsMade[j] <= attempts
        /\ qstate[j] \in {"active", "delayed", "waiting"} => attemptsMade[j] < attempts
        /\ qstate[j] = "failed" => (attemptsMade[j] = attempts /\ failedReason[j] # "")

C8_Witness ==
    \E j \in JobIds :
        /\ qstate[j] = "failed"
        /\ attemptsMade[j] = attempts
        /\ failedReason[j] = "ffmpeg exited with code 1"

\* C9: a job that failed on bad layer data is not retried: after that
\* failure it is in the failed state, having been attempted once.
C9_ValidationFailureNotRetried ==
    \A j \in JobIds :
        failedReason[j] = "TypeError: source is undefined" => (qstate[j] = "failed" /\ attemptsMade[j] = 1)

HasMissingSource(j) == \E i \in 1..Len(jobData[j]) : jobData[j][i] = "missing"

\* C10: for a job with a video or image layer without source no working
\* directory is created and no tool invocation is started.
C10_RejectedBeforeAllocation ==
    \A j \in JobIds :
        HasMissingSource(j) => (~dirExists[j] /\ pc[j] \notin {"ffmpeg", "concatRun", "hung"})

\* C11: when a failed attempt ends (the processor has thrown and the queue
\* counts the failure), the working directory of the job no longer exists.
C11_WorkDirRemovedOnFailure ==
    [][\A j \in JobIds : moveToFailed(j) => ~dirExists'[j]]_vars

\* C12: a job is executed by at most one worker at a time: only a claimed
\* job is executed, a claimed job is not in the wait list and so cannot be
\* claimed by a second worker, and a waiting job is in the list once.
C12_OneWorkerPerJob ==
    \A j \in JobIds :
        /\ pc[j] # "idle" => qstate[j] = "active"
        /\ qstate[j] = "active" => \A k \in 1..Len(waitOrder) : waitOrder[k] # j
        /\ Cardinality({k \in 1..Len(waitOrder) : waitOrder[k] = j}) <= 1

\* A job is being rendered while a second worker slot is free and finds
\* nothing to claim.
C12_Witness ==
    \E j \in JobIds :
        /\ pc[j] = "ffmpeg"
        /\ Cardinality(Active) < renderConcurrency
        /\ waitOrder = <<>>

\* ------------------------------------------------------------ worker pool
\* Specifications about the pool: PoolJobs jobs of well-formed scenes compete
\* for the worker slots.
OkRequests == {req \in Requests : \A i \in 1..Len(req) : req[i] = "ok"}

PoolStep(j) ==
    \/ insertRow(j)
    \/ moveToActive(j)
    \/ processRenderJob(j)
    \/ moveToCompleted(j)
    \/ moveToFailed(j)
    \/ promote(j)

\* Jobs of the default quality, a pool of every size up to the default.
PoolInit ==
    /\ QueueInit
    /\ renderConcurrency \in 1..concurrency
    /\ outputFormat = [j \in JobIds |-> default]
    /\ CommandInit

PoolNext ==
    \/ \E req \in OkRequests : queueRender(req, "standard", PoolJobs)
    \/ \E j \in JobIds : PoolStep(j)

PoolSpec == PoolInit /\ [][PoolNext]_vars

\* Jobs of every quality, served by a single worker slot
\* (RENDER_CONCURRENCY=1).
PriorityInit ==
    /\ QueueInit
    /\ renderConcurrency = 1
    /\ outputFormat = [j \in JobIds |-> default]
    /\ CommandInit

PriorityNext ==
    \/ \E req \in OkRequests : \E q \in Qualities : queueRender(req, q, PoolJobs)
    \/ \E j \in JobIds : PoolStep(j)

PrioritySpec == PriorityInit /\ [][PriorityNext]_vars

\* The quality tiers, lowest first: draft < standard < high < ultra.
tier(q) ==
    CASE q = "draft" -> 1
      [] q = "standard" -> 2
      [] q = "high" -> 3
      [] q = "ultra" -> 4

\* Position of a waiting job in the wait list.
waitPos(j) == CHOOSE k \in 1..Len(waitOrder) : waitOrder[k] = j

\* C13: whenever a worker claims a job, no job of a higher quality tier is
\* waiting, and no job of the same tier has waited longer.
C13_HigherTierFirst ==
    [][\A j \in JobIds :
          moveToActive(j) =>
              \A k \in JobIds \ {j} :
                  qstate[k] = "waiting" =>
                      \/ tier(quality[k]) < tier(quality[j])
                      \/ /\ tier(quality[k]) = tier(quality[j])
                         /\ waitPos(j) < waitPos(k)]_vars

\* ------------------------------------------------------------------ crash
\* The server process dies and is started again: every processRenderJob
\* call and every request handler in flight is gone with its locals; the
\* queue (Redis), the table and the disk keep their state.  The constructor
\* creates the Queue and the Worker and does nothing else.
crash ==
    /\ \E j \in JobIds : pc[j] # "idle"
    /\ pc' = [j \in JobIds |-> "idle"]
    /\ sceneIdx' = [j \in JobIds |-> 0]
    /\ sceneFiles' = [j \in JobIds |-> <<>>]
    /\ publicUrl' = [j \in JobIds |-> ""]
    /\ error' = [j \in JobIds |-> ""]
    /\ insertPending' = [j \in JobIds |-> FALSE]
    /\ UNCHANGED <<fixedVars, queueVars, progress, db, fsVars>>

\* The Worker's stalled-job check finds an active job whose lock has expired:
\* the job goes back to the wait list, or, once it has been found stalled
\* more than maxStalledCount times, to the failed set.  The processor is not
\* called, so nothing is written to render_jobs.
moveStalledJobsToWait(j) ==
    /\ qstate[j] = "active"
    /\ pc[j] = "idle"
    /\ stalledCounter' = [stalledCounter EXCEPT ![j] = @ + 1]
    /\ IF stalledCounter[j] < maxStalledCount
       THEN /\ qstate' = [qstate EXCEPT ![j] = "waiting"]
            /\ waitOrder' = Append(waitOrder, j)
            /\ UNCHANGED <<failedSet, failedReason>>
       ELSE LET all == Append(failedSet, j) IN
            /\ failedSet' = Trimmed(all, removeOnFail)
            /\ qstate' = [k \in JobIds |->
                            IF k \in Dropped(all, removeOnFail) THEN "removed"
                            ELSE IF k = j THEN "failed" ELSE qstate[k]]
            /\ failedReason' = [failedReason EXCEPT ![j] = "job stalled more than allowable limit"]
            /\ UNCHANGED waitOrder
    /\ UNCHANGED <<fixedVars, nextId, jobData, quality, attemptsMade, progress, returnvalue,
                   completedSet, insertPending, db, pc, localVars, fsVars>>

CrashNext ==
    \/ Next
    \/ crash
    \/ \E j \in JobIds : moveStalledJobsToWait(j)

CrashSpec == Init /\ [][CrashNext]_vars

\* The worker and the queue run every step that stays possible; crashes and
\* client calls are under no obligation to happen.
FairCrashSpec ==
    CrashSpec /\ \A j \in JobIds : WF_vars(SystemStep(j) \/ moveStalledJobsToWait(j))

\* C14: a job that is recorded as processing while no worker executes it
\* does not stay so forever: its record changes or a worker executes it.
C14_NoOrphanedProcessing ==
    \A j \in JobIds :
        (db[j].status = "processing" /\ pc[j] = "idle")
            ~> (db[j].status # "processing" \/ pc[j] # "idle")

\* C15: once scenes were rendered and concatenated and the upload has failed,
\* no scene is rendered and nothing is concatenated for that job again.
C15_UploadFailureNotRerendered ==
    \A j \in JobIds :
        failedReason[j] = "upload failed"
            => pc[j] \notin {"scene", "ffmpeg", "concat", "concatRun"}

\* C16: a cancel of a job that is waiting in the queue takes it out of the
\* queue and records it as cancelled, and a job that has been taken out of
\* the queue stays out: no worker starts it.
C16_CancelledQueuedJobNeverStarts ==
    [][\A j \in JobIds :
          /\ (qstate[j] = "waiting" /\ Returned(j) /\ cancelRender(j))
                => /\ qstate'[j] = "removed"
                   /\ db'[j].status = "cancelled"
                   /\ \A k \in 1..Len(waitOrder') : waitOrder'[k] # j
          /\ qstate[j] = "removed"
                => /\ qstate'[j] = "removed"
                   /\ pc'[j] = "idle"]_vars

\* A job cancelled before any worker touched it, while a worker slot is free.
C16_Witness ==
    \E j \in JobIds :
        /\ qstate[j] = "removed"
        /\ db[j] = [status |-> "cancelled", metadata |-> NoMeta]
        /\ ~dirExists[j]
        /\ Cardinality(Active) < renderConcurrency

\* C17: the number of processRenderJob calls in progress, and of jobs
\* claimed by the worker, never exceeds RENDER_CONCURRENCY.
C17_PoolSizeRespected ==
    /\ Cardinality({j \in JobIds : pc[j] # "idle"}) <= renderConcurrency
    /\ Cardinality(Active) <= renderConcurrency

\* Every slot is busy and a job is waiting for one.
C17_Witness ==
    /\ Cardinality({j \in JobIds : pc[j] # "idle"}) = renderConcurrency
    /\ waitOrder # <<>>

\* -------------------------------------------------------------- renderScene
\* The command that renderScene builds for one scene, layer by layer.  Layer
\* ids are numbered in their string order.  style is <<>> when the layer has
\* no style.zIndex and <<z>> otherwise.
LayerTypes == {"image", "video", "text", "audio"}

\* A text is the sequence of its characters; a layer without content has the
\* empty one.
NoContent == <<>>

Layers ==
    [id : 1..MaxLayers, type : LayerTypes, startTime : 0..MaxTime,
     duration : 1..MaxTime, style : {<<>>} \cup {<<z>> : z \in 0..MaxZIndex},
     content : {NoContent}]

LayerLists ==
    {ls \in UNION {[1..n -> Layers] : n \in 0..MaxLayers} :
        \A i, k \in 1..Len(ls) : i # k => ls[i].id # ls[k].id}

Scenes == [duration : 1..MaxTime, layers : LayerLists]

\* a.style?.zIndex || 0
zIndexOf(layer) == IF layer.style = <<>> THEN 0 ELSE layer.style[1]

\* The comparator given to scene.layers.sort
compare(a, b) ==
    IF a.startTime # b.startTime
    THEN a.startTime - b.startTime
    ELSE zIndexOf(a) - zIndexOf(b)

\* Array.prototype.sort is stable: a layer goes behind every layer that the
\* comparator does not put after it, and layers that compare equal keep the
\* order they came in.
\* A faulty variant of position: a layer goes before the layers it ties with.
positionBeforeTies(front, last) ==
    Cardinality({i \in 1..Len(front) : compare(front[i], last) < 0})

\* How many of the sorted layers stay in front of the next layer.
position(front, last) ==
    Cardinality({i \in 1..Len(front) : compare(front[i], last) <= 0})

RECURSIVE sort(_)
sort(layers) ==
    IF layers = <<>> THEN <<>>
    ELSE LET n == Len(layers)
             front == sort(SubSeq(layers, 1, n - 1))
             last == layers[n]
             p == position(front, last)
         IN  SubSeq(front, 1, p) \o <<last>> \o SubSeq(front, p + 1, Len(front))

\* A pad of the filter graph: [0:v] is <<"input", 0>>, [img1] is <<"img", 1>>,
\* [v1] is <<"v", 1>>.
NoPad == <<"", 0>>

\* ffmpeg's between(t, min, max): 1 if min <= t <= max, 0 otherwise.
between(t, min, max) == min <= t /\ t <= max

\* `[i:v]scale=..[img i];[0:v][img i]overlay=..:enable='between(t,s,s+d)'[v i];`
getImageFilter(layer, inputIndex) ==
    [kind |-> "overlay", layer |-> layer.id,
     scaled |-> <<"img", inputIndex>>, base |-> <<"input", 0>>, out |-> <<"v", inputIndex>>,
     text |-> <<>>,
     from |-> layer.startTime, to |-> layer.startTime + layer.duration]

getVideoFilter(layer, inputIndex) ==
    [kind |-> "overlay", layer |-> layer.id,
     scaled |-> <<"vid", inputIndex>>, base |-> <<"input", 0>>, out |-> <<"v", inputIndex>>,
     text |-> <<>>,
     from |-> layer.startTime, to |-> layer.startTime + layer.duration]

\* text.replace(/'/g, "\\'"): a backslash is put in front of every
\* apostrophe; every other character, the backslash included, stays.
RECURSIVE replace(_)
replace(text) ==
    IF text = <<>> THEN <<>>
    ELSE (IF Head(text) = "'" THEN <<"\\", "'">> ELSE <<Head(text)>>) \o replace(Tail(text))

\* layer.content || 'Text'
textOf(layer) == IF layer.content = <<>> THEN <<"T", "e", "x", "t">> ELSE layer.content

\* `drawtext=text='..':..:enable='between(t,s,s+d)';` (no pads); text is what
\* stands between the apostrophes that the template puts around it.
getTextFilter(layer) ==
    [kind |-> "drawtext", layer |-> layer.id,
     scaled |-> NoPad, base |-> NoPad, out |-> NoPad,
     text |-> replace(textOf(layer)),
     from |-> layer.startTime, to |-> layer.startTime + layer.duration]

\* The loop over sortedLayers: the filters appended to filterComplex, with
\* inputIndex counting the image, video and audio inputs.
RECURSIVE filtersOf(_, _)
filtersOf(layers, inputIndex) ==
    IF layers = <<>> THEN <<>>
    ELSE LET layer == Head(layers) IN
         CASE layer.type = "image" ->
                  <<getImageFilter(layer, inputIndex)>> \o filtersOf(Tail(layers), inputIndex + 1)
           [] layer.type = "video" ->
                  <<getVideoFilter(layer, inputIndex)>> \o filtersOf(Tail(layers), inputIndex + 1)
           [] layer.type = "text" ->
                  <<getTextFilter(layer)>> \o filtersOf(Tail(layers), inputIndex)
           [] layer.type = "audio" -> filtersOf(Tail(layers), inputIndex + 1)

\* command.input(layer.source) of every image, video and audio layer.
inputsOf(layers) ==
    LET withInput == SelectSeq(layers, LAMBDA l : l.type # "text")
    IN  [i \in 1..Len(withInput) |-> withInput[i].id]

\* renderScene from the sort to command.complexFilter: scene.layers is sorted
\* in place, then the inputs and the filter graph are collected.
buildCommand ==
    /\ scene # NoScene
    /\ Len(built) < MaxBuilds
    /\ LET sortedLayers == sort(scene.layers) IN
         /\ scene' = [scene EXCEPT !.layers = sortedLayers]
         /\ inputs' = inputsOf(sortedLayers)
         /\ filterComplex' = filtersOf(sortedLayers, 1)
         /\ built' = Append(built, [layers |-> scene.layers,
                                    inputs |-> inputsOf(sortedLayers),
                                    filterComplex |-> filtersOf(sortedLayers, 1)])
    /\ UNCHANGED <<renderConcurrency, outputFormat, queueVars, progress, insertPending, db, pc,
                   localVars, fsVars>>

\* Every scene within the bounds is given to renderScene.
PlannerInit ==
    /\ QueueInit
    /\ renderConcurrency = concurrency
    /\ outputFormat = [j \in JobIds |-> default]
    /\ scene \in Scenes
    /\ built = <<>>
    /\ inputs = <<>>
    /\ filterComplex = <<>>

PlannerNext == buildCommand

PlannerSpec == PlannerInit /\ [][PlannerNext]_vars

\* The layer of the scene with the given id.
layerOf(id) ==
    LET k == CHOOSE i \in 1..Len(scene.layers) : scene.layers[i].id = id
    IN  scene.layers[k]

\* C18: the filters of the layers are emitted in the order of startTime, then
\* z-index (0 when absent), then layer id.
C18_OrderedByStartZIndexId ==
    \A i, k \in 1..Len(filterComplex) :
        i < k =>
            LET a == layerOf(filterComplex[i].layer)
                b == layerOf(filterComplex[k].layer)
            IN  \/ a.startTime < b.startTime
                \/ a.startTime = b.startTime /\ zIndexOf(a) < zIndexOf(b)
                \/ a.startTime = b.startTime /\ zIndexOf(a) = zIndexOf(b) /\ a.id < b.id

\* Whether the filter is applied at time t.
enabled(filter, t) == between(t, filter.from, filter.to)

\* C19: the filter of a layer is applied at t = startTime and is not applied
\* at t = startTime + duration.
C19_HalfOpenWindow ==
    \A i \in 1..Len(filterComplex) :
        LET layer == layerOf(filterComplex[i].layer) IN
            /\ enabled(filterComplex[i], layer.startTime)
            /\ ~enabled(filterComplex[i], layer.startTime + layer.duration)

\* C20: no filter is applied after the end of the scene, and a layer that
\* starts at or after the end of the scene has no filter.
C20_ClippedToScene ==
    \A i \in 1..Len(filterComplex) :
        /\ filterComplex[i].to <= scene.duration
        /\ layerOf(filterComplex[i].layer).startTime < scene.duration

\* C21: the overlays are chained: the first one is laid onto the canvas
\* [0:v], and an overlay that follows another overlay is laid onto the output
\* of that one.
C21_ChainedOntoComposite ==
    \A k \in 1..Len(filterComplex) :
        filterComplex[k].kind = "overlay" =>
            /\ k = 1 => filterComplex[k].base = <<"input", 0>>
            /\ (k > 1 /\ filterComplex[k - 1].kind = "overlay")
                  => filterComplex[k].base = filterComplex[k - 1].out

\* The inputs of the command that come from audio layers.
audioInputs == {i \in 1..Len(inputs) : layerOf(inputs[i]).type = "audio"}

\* C22: the command for a scene with audio layers has a filter that mixes
\* the audio inputs, so that none of several audio layers is dropped (checked
\* where it matters most: two or more audio inputs).
C22_AudioMixed ==
    Cardinality(audioInputs) >= 2
        => \E k \in 1..Len(filterComplex) : filterComplex[k].kind = "amix"

\* ------------------------------------------------------------ repeated runs
\* renderScene is called again on the scene object the first call has sorted.
\* The layers are image and text layers of duration 1 that start within a
\* scene of duration MaxTime: neither the duration nor the kind of input
\* enters the order.
ReplanLayers ==
    {l \in Layers : l.duration = 1 /\ l.startTime < MaxTime /\ l.type \in {"image", "text"}}

ReplanScenes ==
    [duration : {MaxTime},
     layers : {ls \in UNION {[1..n -> ReplanLayers] : n \in 0..MaxLayers} :
                  \A i, k \in 1..Len(ls) : i # k => ls[i].id # ls[k].id}]

ReplanInit ==
    /\ QueueInit
    /\ renderConcurrency = concurrency
    /\ outputFormat = [j \in JobIds |-> default]
    /\ scene \in ReplanScenes
    /\ built = <<>>
    /\ inputs = <<>>
    /\ filterComplex = <<>>

ReplanSpec == ReplanInit /\ [][PlannerNext]_vars

\* C28: every call of renderScene on the same scene builds the same command:
\* the same inputs in the same order and the same filter graph.
C28_PlannerIdempotent ==
    \A i, k \in 1..Len(built) :
        /\ built[i].inputs = built[k].inputs
        /\ built[i].filterComplex = built[k].filterComplex

\* The second call was given the layers in another order than the first (the
\* first call has reordered them) and has built a graph of two filters.
C28_Witness ==
    /\ Len(built) = 2
    /\ built[1].layers # built[2].layers
    /\ Len(built[2].filterComplex) = 2

\* ------------------------------------------------------------ text layers
\* Scenes of one text layer whose content is any text of up to MaxTextLen
\* characters out of apostrophe, double quote, backslash, colon and a letter.
TextChars == {"'", "\"", "\\", ":", "a"}

Texts == UNION {[1..n -> TextChars] : n \in 0..MaxTextLen}

TextScenes ==
    [duration : 1..MaxTime,
     layers : {<<[id |-> 1, type |-> "text", startTime |-> s, duration |-> d,
                  style |-> <<>>, content |-> text]>> :
                  s \in 0..MaxTime, d \in 1..MaxTime, text \in Texts}]

TextInit ==
    /\ QueueInit
    /\ renderConcurrency = concurrency
    /\ outputFormat = [j \in JobIds |-> default]
    /\ scene \in TextScenes
    /\ built = <<>>
    /\ inputs = <<>>
    /\ filterComplex = <<>>

TextSpec == TextInit /\ [][PlannerNext]_vars

\* What follows the opening apostrophe of text='..' in the emitted filter:
\* the replaced text, the apostrophe of the template, and the next option up
\* to its own apostrophe.
afterOpeningQuote(filter) == filter.text \o <<"'", ":", "'">>

\* Where the quoted argument ends when an apostrophe always ends it (ffmpeg's
\* quoting: nothing is an escape between apostrophes).
closingQuote(chars) ==
    CHOOSE k \in 1..Len(chars) : chars[k] = "'" /\ \A m \in 1..(k - 1) : chars[m] # "'"

\* Where it ends when a backslash takes the character after it with it.
RECURSIVE closingQuoteFrom(_, _)
closingQuoteFrom(chars, k) ==
    IF k > Len(chars) THEN k
    ELSE IF chars[k] = "\\" THEN closingQuoteFrom(chars, k + 2)
    ELSE IF chars[k] = "'" THEN k
    ELSE closingQuoteFrom(chars, k + 1)

\* C23: the quoted text argument of every drawtext filter ends where the
\* content ends, by at least one of the two ways of reading a backslash
\* before an apostrophe.
C23_TextArgumentEndsWithContent ==
    \A k \in 1..Len(filterComplex) :
        filterComplex[k].kind = "drawtext" =>
            LET chars == afterOpeningQuote(filterComplex[k])
                end == Len(filterComplex[k].text) + 1
            IN  closingQuote(chars) = end \/ closingQuoteFrom(chars, 1) = end

\* C24: the progress of a job that stays in the queue never decreases from
\* one step to the next, retries included, and lies between 0 and 100.
C24_ProgressMonotone ==
    [][\A j \in JobIds :
          qstate'[j] # "removed" =>
              /\ RatLeq(progress[j], progress'[j])
              /\ RatLeq(Rat(0), progress'[j])
              /\ RatLeq(progress'[j], Rat(100))]_vars

\* C26: a tool invocation that neither ends nor errors does not block the
\* call forever: the call goes on (with an error) after the timeout.
C26_HungToolTimesOut ==
    \A j \in JobIds : (pc[j] = "hung") ~> (pc[j] # "hung")

\* C27: an attempt starts without a working directory of an earlier attempt
\* and without files left in it.
C27_FreshWorkDirPerAttempt ==
    \A j \in JobIds : pc[j] = "status" => (~dirExists[j] /\ files[j] = {})

\* C29: an attempt that is failing has not reported progress 100, and a job
\* in the failed state does not stand at progress 100.
C29_FullProgressOnlyWhenCompleted ==
    \A j \in JobIds :
        (pc[j] \in {"catch", "throw"} \/ qstate[j] = "failed") => progress[j] # Rat(100)

\* ------------------------------------------------------------ longer jobs
\* A single job of up to MaxScenes + 1 scenes, so that there is a scene after
\* the first one at every bound.
LongRequests == UNION {[1..n -> SourceKinds] : n \in 1..(MaxScenes + 1)}

ScenesNext ==
    \/ \E req \in LongRequests : queueRender(req, "standard", 1)
    \/ \E j \in JobIds :
         \/ insertRow(j)
         \/ cancelRender(j)
         \/ moveToActive(j)
         \/ processRenderJob(j)
         \/ moveToCompleted(j)
         \/ moveToFailed(j)
         \/ promote(j)

ScenesSpec == Init /\ [][ScenesNext]_vars

\* The scene files of a job in the order of its scene list.
allSceneFiles(j) == [i \in 1..nScenes(j) |-> sceneOutput(i - 1)]

\* C25: when the concatenation is started, and from then on, this attempt has
\* rendered every scene of the job, the files exist and are listed in
\* scenes.txt in the order of the scene list; and an attempt in which a step
\* has failed is in its catch block and nowhere else.
C25_ConcatAfterAllScenesInOrder ==
    \A j \in JobIds :
        /\ pc[j] \in {"concat", "concatRun", "upload"}
              => /\ sceneFiles[j] = allSceneFiles(j)
                 /\ \A i \in 1..nScenes(j) : sceneOutput(i - 1) \in files[j]
        /\ pc[j] \in {"concatRun", "upload"} => fileList[j] = allSceneFiles(j)
        /\ error[j] # "" => pc[j] \in {"catch", "throw"}

\* The concatenation of a job of MaxScenes + 1 scenes is running.
C25_Witness ==
    \E j \in JobIds : pc[j] = "concatRun" /\ nScenes(j) = MaxScenes + 1

\* ------------------------------------------------- the published artifact
\* concatenateScenes: the final file is final_output.<format>, written by
\* ffmpeg in the container of that extension.
finalOutputFormat(format) == format

\* uploadFinalVideo: the extension of fileName, `${projectId}_${Date.now()}.mp4`,
\* whatever filePath is.
fileNameExtension(filePath) == "mp4"

\* uploadFinalVideo: the content type handed to supabase.uploadFile.
contentType(filePath) == "video/mp4"

\* Requests of every output format the schema lets through.
FormatInit ==
    /\ QueueInit
    /\ renderConcurrency = concurrency
    /\ outputFormat \in {[j \in JobIds |-> format] : format \in Formats}
    /\ CommandInit

FormatSpec == FormatInit /\ [][Next]_vars

\* C30: once a job's final file has been uploaded, the extension of the
\* object name and the content type of the upload are those of the format
\* the final file was produced in (mp4: video/mp4, mov: video/quicktime,
\* avi: video/x-msvideo, webm: video/webm).
C30_ArtifactMatchesFormat ==
    \A j \in JobIds :
        pc[j] = "cleanup" =>
            LET format == finalOutputFormat(outputFormat[j]) IN
              /\ fileNameExtension(outputFile) = format
              /\ contentType(outputFile) =
                    CASE format = "mp4" -> "video/mp4"
                      [] format = "mov" -> "video/quicktime"
                      [] format = "avi" -> "video/x-msvideo"
                      [] format = "webm" -> "video/webm"

====
